---- MODULE Spec2Model ----
(***************************************************************************)
(* Court data fetcher: the scraper pipeline (scraper.py) and the request   *)
(* handlers that cache and persist its results (routes.py, models.py).     *)
(*                                                                         *)
(* Python dicts are records; d.get(k, default) is Get(d, k, default).      *)
(* A call that can raise is a record [kind, value, exc, steps]: kind is    *)
(* "return" or "raise", steps is the log of what the call did.  Every      *)
(* outcome of the browser (selenium) is an input: the field env of a call. *)
(***************************************************************************)
EXTENDS Integers, Sequences, FiniteSets, TLC

\* ------------------------------------------------------------------ bounds
MaxStore == 2
MaxDownloads == 1
MaxTime == 3601
MaxAnchors == 2
MaxRequests == 2

\* ------------------------------------------------------------ dict helpers
Get(d, k, default) == IF k \in DOMAIN d THEN d[k] ELSE default

\* The empty markup '' and Python's None for object-valued slots.
EmptyHtml == [heading |-> <<>>, lines |-> <<>>, anchors |-> <<>>]
None == [none |-> TRUE]
NoneText == "<None>"

Ret(v, st) == [kind |-> "return", value |-> v, exc |-> "", steps |-> st]
Raise(e, st) == [kind |-> "raise", value |-> None, exc |-> e, steps |-> st]

\* str(e) of the exceptions the browser calls raise.
ExcText(e) ==
    CASE e = "TimeoutException" -> "Message: timeout"
      [] e = "WebDriverException" -> "Message: chrome not reachable"
      [] e = "NoSuchElementException" -> "Message: no such element"
      [] e = "AttributeError" -> "type object 'By' has no attribute 'VALUE'"
      [] e = "ParserError" -> "malformed markup"
      [] OTHER -> e

\* ------------------------------------------------------------------ markup
\* A page is its text lines ("label: rest") and its anchors, in document
\* order; heading is the identity line of the demonstration page.
Line(l, r) == [label |-> l, rest |-> r]
Anchor(h, t) == [href |-> h, text |-> t]

PageNoRecords == [heading |-> <<>>, lines |-> <<Line("", "No Records Found")>>, anchors |-> <<>>]
PageDetails ==
    [heading |-> <<>>,
     lines |-> <<Line("Petitioner", "Ram Kumar"), Line("Respondent", "State"),
                 Line("Filed on", "05-03-2019"), Line("Status", "Pending")>>,
     anchors |-> <<Anchor("docs/order1.pdf", "Interim Order")>>]
PageMixed ==
    [heading |-> <<>>,
     lines |-> <<Line("", "No Records Found"), Line("Petitioner", "Ram Kumar")>>,
     anchors |-> <<>>]
PageBlank == [heading |-> <<>>, lines |-> <<Line("", "Welcome")>>, anchors |-> <<>>]
\* The text "Petitioner: " ends the page: the pattern's group captures " ".
PageEmptyParty == [heading |-> <<>>, lines |-> <<Line("Petitioner", " ")>>, anchors |-> <<>>]
Pages == {PageNoRecords, PageDetails, PageMixed, PageBlank, PageEmptyParty}

\* str.lower() on the strings the pages are made of.
Lower(s) ==
    CASE s = "No Records Found" -> "no records found"
      [] s = "Petitioner" -> "petitioner"
      [] s = "Respondent" -> "respondent"
      [] s = "Ram Kumar" -> "ram kumar"
      [] s = "State" -> "state"
      [] s = "Filed on" -> "filed on"
      [] s = "Status" -> "status"
      [] s = "Pending" -> "pending"
      [] s = "Welcome" -> "welcome"
      [] s = "Interim Order" -> "interim order"
      [] s = "Application/PDF" -> "application/pdf"
      [] s = "Download Judgment" -> "download judgment"
      [] s = "Details" -> "details"
      [] s = "docs/ORDER1.PDF" -> "docs/order1.pdf"
      [] s = "files/PDF/view?id=2" -> "files/pdf/view?id=2"
      [] s = "https://delhihighcourt.nic.in/app/docs/ORDER1.PDF"
           -> "https://delhihighcourt.nic.in/app/docs/order1.pdf"
      [] OTHER -> s

\* kw in s, for a lower-cased string s of the pages and a keyword kw.
KeywordsIn(s) ==
    CASE s = "no records found" -> {"no records found"}
      [] s = "petitioner" -> {"petitioner"}
      [] s = "respondent" -> {"respondent"}
      [] s = "interim order" -> {"order"}
      [] s = "docs/order1.pdf" -> {"order", "pdf"}
      [] s = "application/pdf" -> {"pdf"}
      [] s = "download judgment" -> {"download", "judgment"}
      [] s = "files/pdf/view?id=2" -> {"pdf"}
      [] s = "getpdf?id=3" -> {"pdf"}
      [] OTHER -> {}

Range(f) == {f[i] : i \in DOMAIN f}

\* The strings of driver.page_source.
PageStrings(html) ==
    UNION {{l.label, l.rest} : l \in Range(html.lines)}
      \cup UNION {{a.href, a.text} : a \in Range(html.anchors)}

LowerHtml(html) == {Lower(s) : s \in PageStrings(html)}
Contains(lowered, kw) == \E s \in lowered : kw \in KeywordsIn(s)

NegativeKeywords ==
    {"no records found", "case not found", "invalid case", "record not found", "no case found"}
PositiveKeywords ==
    {"case details", "petitioner", "respondent", "hearing", "order", "judgment", "parties"}


\* --------------------------------------------------- scraper.py: extraction
\* str.strip() on the strings of the model.
Strip(s) ==
    CASE s = " CRL.A. " -> "CRL.A."
      [] s = " Interim Order " -> "Interim Order"
      [] s = " " -> ""
      [] OTHER -> s

RECURSIVE Join(_)
Join(parts) ==
    IF Len(parts) = 0 THEN ""
    ELSE IF Len(parts) = 1 THEN parts[1]
    ELSE parts[1] \o "; " \o Join(Tail(parts))

RECURSIVE Concat(_)
Concat(seqs) == IF Len(seqs) = 0 THEN <<>> ELSE Head(seqs) \o Concat(Tail(seqs))

\* re.findall(role + '[:\s]*([^<\n\r]+)', text) on the lower-cased text.
PartyMatches(html, role) ==
    LET ls == SelectSeq(html.lines, LAMBDA l : Lower(l.label) = role /\ l.rest # "")
    IN  [i \in 1..Len(ls) |-> Strip(Lower(ls[i].rest))]

PartyPatterns == <<"petitioner", "respondent", "appellant", "plaintiff", "defendant">>

ExtractParties(html) ==
    LET parties == Concat([i \in 1..Len(PartyPatterns) |-> PartyMatches(html, PartyPatterns[i])])
    IN  IF Len(parties) > 0 THEN Join(parties) ELSE "Parties information not found"

\* \d{1,2}[-/]\d{1,2}[-/]\d{2,4}
IsDate(s) == s \in {"05-03-2019", "12/04/21", "25-08-2025"}

\* ([^<\n\r]+) captures at least one character.
NonEmpty(s) == s # ""

\* The first pattern, in list order, that re.search finds in the text; dated
\* patterns capture a date, the others the rest of the line.
FirstLabelled(html, patterns, dated) ==
    LET ok(s) == IF dated THEN IsDate(s) ELSE NonEmpty(s)
        hits(p) == SelectSeq(html.lines, LAMBDA l : Lower(l.label) = p /\ ok(l.rest))
        found == SelectSeq(patterns, LAMBDA p : Len(hits(p)) > 0)
    IN  IF Len(found) = 0 THEN None ELSE [none |-> FALSE, group |-> hits(found[1])[1].rest]

ExtractFilingDate(html) ==
    LET m == FirstLabelled(html, <<"filed on", "filing date", "date of filing">>, TRUE)
    IN  IF m.none THEN "Filing date not found" ELSE m.group

ExtractNextHearing(html) ==
    LET m == FirstLabelled(html, <<"next hearing", "next date", "hearing date">>, TRUE)
    IN  IF m.none THEN "Next hearing date not found" ELSE m.group

ExtractCaseStatus(html) ==
    LET m == FirstLabelled(html, <<"status", "stage", "current status">>, FALSE)
    IN  IF m.none THEN "Case status not found" ELSE Strip(m.group)

case_status_url == "https://delhihighcourt.nic.in/app/get-case-type-status"

\* urllib.parse.urljoin for the hrefs of the model.
UrlJoin(base_url, href) ==
    IF base_url = case_status_url
         /\ href \in {"docs/order1.pdf", "docs/ORDER1.PDF", "files/PDF/view?id=2",
                      "getpdf?id=3", "view?id=1"}
    THEN "https://delhihighcourt.nic.in/app/" \o href
    ELSE href

EndsWithPdf(s) ==
    s \in {"docs/order1.pdf", "https://delhihighcourt.nic.in/app/docs/order1.pdf",
           "https://delhihighcourt.nic.in/app/docs/.pdf", "order1.pdf", ".pdf"}
LinkKeywords == {"order", "judgment", "download", "pdf"}

\* Variant: an anchor qualifies by its href only.
ExtractPdfLinks_HrefOnly(html, base_url) ==
    LET isPdf(a) ==
            \/ EndsWithPdf(Lower(a.href))
            \/ "pdf" \in KeywordsIn(Lower(a.href))
        links == SelectSeq(html.anchors, isPdf)
    IN  [i \in 1..Len(links) |->
            [url |-> UrlJoin(base_url, links[i].href),
             text |-> IF Strip(links[i].text) = "" THEN "Download PDF" ELSE Strip(links[i].text)]]

\* Variant: a link whose href is already listed is not listed again.
ExtractPdfLinks_Deduplicated(html, base_url) ==
    LET isPdf(a) ==
            \/ EndsWithPdf(Lower(a.href))
            \/ "pdf" \in KeywordsIn(Lower(a.href))
            \/ \E keyword \in LinkKeywords : keyword \in KeywordsIn(Lower(Strip(a.text)))
        first(i) == \A j \in 1..(i - 1) : html.anchors[j].href # html.anchors[i].href
        kept == SelectSeq([i \in 1..Len(html.anchors) |->
                              [a |-> html.anchors[i], keep |-> first(i)]],
                          LAMBDA e : e.keep /\ isPdf(e.a))
    IN  [i \in 1..Len(kept) |->
            [url |-> UrlJoin(base_url, kept[i].a.href),
             text |-> IF Strip(kept[i].a.text) = "" THEN "Download PDF" ELSE Strip(kept[i].a.text)]]

ExtractPdfLinks(html, base_url) ==
    LET isPdf(a) ==
            \/ EndsWithPdf(Lower(a.href))
            \/ "pdf" \in KeywordsIn(Lower(a.href))
            \/ \E keyword \in LinkKeywords : keyword \in KeywordsIn(Lower(Strip(a.text)))
        links == SelectSeq(html.anchors, isPdf)
    IN  [i \in 1..Len(links) |->
            [url |-> UrlJoin(base_url, links[i].href),
             text |-> IF Strip(links[i].text) = "" THEN "Download PDF" ELSE Strip(links[i].text)]]

\* _parse_case_details: env.parse = "error" is a fault inside its try block.
ParseCaseDetails(env, html) ==
    IF env.parse = "error"
    THEN [success |-> FALSE,
          error |-> "Failed to parse case details: " \o ExcText("ParserError"),
          raw_html |-> html]
    ELSE [success |-> TRUE,
          parties_name |-> ExtractParties(html),
          filing_date |-> ExtractFilingDate(html),
          next_hearing_date |-> ExtractNextHearing(html),
          case_status |-> ExtractCaseStatus(html),
          pdf_links |-> ExtractPdfLinks(html, case_status_url),
          raw_html |-> html]


\* ------------------------------------------------ scraper.py: the two paths
\* What the browser does during one _scrape_with_selenium call.  buttons =
\* "error" covers the lookup By.VALUE, which selenium's By does not define.
FieldNames == {"case_type", "case_no", "case_year"}
ScrapeEnvs ==
    [setup : {"ok", "error"},
     get : {"ok", "timeout", "error"},
     fields : {{}, {"case_no"}, FieldNames},
     fill : {"ok", "timeout", "error"},
     captcha : {"none", "present", "error"},
     buttons : {"found", "empty", "error"},
     click : {"ok", "timeout", "error"},
     page : Pages,
     read : {"ok", "error"},
     handler_read : {"ok", "error"},
     parse : {"ok", "error"}]

BrowserExc(outcome) == IF outcome = "timeout" THEN "TimeoutException" ELSE "WebDriverException"

\* _handle_captcha: the value of captcha_handled; it never raises.
HandleCaptcha(env) == IF env.captcha = "none" THEN TRUE ELSE FALSE

\* Variant: the positive keywords are tried before the negative ones.
ClassifyResult_PositiveFirst(current_html) ==
    IF \E indicator \in PositiveKeywords : Contains(LowerHtml(current_html), indicator)
    THEN [success |-> TRUE, html |-> current_html]
    ELSE IF \E error \in NegativeKeywords : Contains(LowerHtml(current_html), error)
    THEN [success |-> FALSE, error |-> "Case not found in court records", html |-> current_html]
    ELSE [success |-> FALSE,
          error |-> "Search form submitted but no case details found",
          html |-> current_html]

\* Variant: the keywords are matched against the page as it is written.
ClassifyResult_CaseSensitive(current_html) ==
    IF \E error \in NegativeKeywords : Contains(PageStrings(current_html), error)
    THEN [success |-> FALSE, error |-> "Case not found in court records", html |-> current_html]
    ELSE IF \E indicator \in PositiveKeywords : Contains(PageStrings(current_html), indicator)
    THEN [success |-> TRUE, html |-> current_html]
    ELSE [success |-> FALSE,
          error |-> "Search form submitted but no case details found",
          html |-> current_html]

\* The result check after the click, on current_html = driver.page_source.
ClassifyResult(current_html) ==
    IF \E error \in NegativeKeywords : Contains(LowerHtml(current_html), error)
    THEN [success |-> FALSE, error |-> "Case not found in court records", html |-> current_html]
    ELSE IF \E indicator \in PositiveKeywords : Contains(LowerHtml(current_html), indicator)
    THEN [success |-> TRUE, html |-> current_html]
    ELSE [success |-> FALSE,
          error |-> "Search form submitted but no case details found",
          html |-> current_html]

FillSteps(env) ==
    SelectSeq(<<"case_type", "case_no", "case_year">>, LAMBDA f : f \in env.fields)

FillLog(found) == [i \in 1..Len(found) |-> "fill:" \o found[i]]

\* The steps of the try block up to the lookup of the submit control.
LookedSteps(env) ==
    <<"locate_fields">> \o FillLog(FillSteps(env))
      \o <<IF HandleCaptcha(env) THEN "no_challenge" ELSE "challenge_detected", "find_submit">>

\* Variant: a field for which no element is found ends the search.
SearchTry_FieldsRequired(env, looked) ==
    IF env.fill # "ok"
    THEN Raise(IF env.fill = "timeout" THEN "TimeoutException" ELSE "NoSuchElementException",
               <<"locate_fields">>)
    ELSE IF env.fields # FieldNames
    THEN Raise("NoSuchElementException", <<"locate_fields", "missing_field">>)
    ELSE IF env.buttons = "error" THEN Raise("AttributeError", looked)
    ELSE IF env.buttons = "found"
    THEN IF env.click # "ok" THEN Raise(BrowserExc(env.click), looked \o <<"click">>)
         ELSE IF env.read = "error"
         THEN Raise("WebDriverException", looked \o <<"click", "settle">>)
         ELSE Ret(ClassifyResult(env.page),
                  looked \o <<"click", "settle", "read_page", "classify">>)
    ELSE IF env.read = "error" THEN Raise("WebDriverException", looked)
    ELSE Ret([success |-> FALSE,
              error |-> "Could not find search button on the page",
              html |-> env.page],
             looked \o <<"read_page">>)

\* The try block of _search_case_with_selenium; looked is LookedSteps(env).
SearchTry(env, looked) ==
    IF env.fill # "ok"
    THEN Raise(IF env.fill = "timeout" THEN "TimeoutException" ELSE "NoSuchElementException",
               <<"locate_fields">>)
    ELSE IF env.buttons = "error" THEN Raise("AttributeError", looked)
    ELSE IF env.buttons = "found"
    THEN IF env.click # "ok" THEN Raise(BrowserExc(env.click), looked \o <<"click">>)
         ELSE IF env.read = "error"
         THEN Raise("WebDriverException", looked \o <<"click", "settle">>)
         ELSE Ret(ClassifyResult(env.page),
                  looked \o <<"click", "settle", "read_page", "classify">>)
    ELSE IF env.read = "error" THEN Raise("WebDriverException", looked)
    ELSE Ret([success |-> FALSE,
              error |-> "Could not find search button on the page",
              html |-> env.page],
             looked \o <<"read_page">>)

\* The two except clauses of _search_case_with_selenium, applied to the
\* outcome body of its try block; each reads driver.page_source again.
SearchExcept(env, body) ==
    IF body.kind = "return" THEN body
    ELSE IF env.handler_read = "error"
    THEN Raise("WebDriverException", body.steps \o <<"except:" \o body.exc>>)
    ELSE IF body.exc = "TimeoutException"
    THEN Ret([success |-> FALSE,
              error |-> "Page load timeout - court website may be down",
              html |-> env.page],
             body.steps \o <<"except:" \o body.exc>>)
    ELSE Ret([success |-> FALSE,
              error |-> "Search failed: " \o ExcText(body.exc),
              html |-> env.page],
             body.steps \o <<"except:" \o body.exc>>)

\* _search_case_with_selenium
SearchCaseWithSelenium(env) == SearchExcept(env, SearchTry(env, LookedSteps(env)))

\* Variant: the finally clause does not quit the driver.
DriverAfterFinally_NoQuit(driver) == driver

\* The finally clause of _scrape_with_selenium; driver is "none" (None),
\* "open" or "quit".
DriverAfterFinally(driver) == IF driver = "open" THEN "quit" ELSE driver

\* The try block of _scrape_with_selenium; result is what
\* _search_case_with_selenium gives once the page is loaded.
SeleniumTry(env, result) ==
    IF env.setup # "ok"
    THEN [out |-> Raise("WebDriverException", <<"setup_driver">>), driver |-> "none"]
    ELSE IF env.get # "ok"
    THEN [out |-> Raise(BrowserExc(env.get), <<"setup_driver", "get">>), driver |-> "open"]
    ELSE IF result.kind = "raise"
    THEN [out |-> Raise(result.exc, <<"setup_driver", "get", "sleep">> \o result.steps),
          driver |-> "open"]
    ELSE IF result.value.success
    THEN [out |-> Ret(ParseCaseDetails(env, result.value.html),
                      <<"setup_driver", "get", "sleep">> \o result.steps \o <<"parse">>),
          driver |-> "open"]
    ELSE [out |-> Ret(result.value, <<"setup_driver", "get", "sleep">> \o result.steps),
          driver |-> "open"]

\* The outcome of _scrape_with_selenium once its finally clause has run; it
\* also carries the state the driver is left in.
SeleniumFinally(try) ==
    [kind |-> try.out.kind, value |-> try.out.value, exc |-> try.out.exc,
     steps |-> try.out.steps, driver |-> DriverAfterFinally(try.driver)]

\* _scrape_with_selenium
ScrapeWithSelenium(case_type, case_number, filing_year, env) ==
    SeleniumFinally(SeleniumTry(env, SearchCaseWithSelenium(env)))

YearText(filing_year) ==
    CASE filing_year = 2020 -> "2020"
      [] filing_year = 1950 -> "1950"
      [] filing_year = 2025 -> "2025"
      [] OTHER -> "year"

\* Variant: the static path issues a request, which the network refuses.
ScrapeWithRequests_Raises(case_type, case_number, filing_year) ==
    Raise("ConnectionError", <<"session.get">>)

\* _scrape_with_requests: the demonstration data; no statement of it raises.
ScrapeWithRequests(case_type, case_number, filing_year) ==
    Ret([success |-> TRUE,
         parties_name |-> "Petitioner: Sample Petitioner vs Respondent: Delhi State and Others",
         filing_date |-> "15-01-" \o YearText(filing_year),
         next_hearing_date |-> "25-08-2025",
         case_status |-> "Matter pending for arguments",
         pdf_links |-> <<[url |-> "https://delhihighcourt.nic.in/app/sample-order-1.pdf",
                          text |-> "Interim Order dated 20-07-2025"],
                         [url |-> "https://delhihighcourt.nic.in/app/sample-judgment.pdf",
                          text |-> "Final Judgment dated 01-08-2025"]>>,
         raw_html |->
            [heading |-> <<"Case Details for", case_type, case_number, YearText(filing_year)>>,
             lines |-> <<Line("Petitioner", "Sample Petitioner"),
                         Line("Respondent", "Delhi State and Others"),
                         Line("Filing Date", "15-01-" \o YearText(filing_year)),
                         Line("Next Hearing", "25-08-2025"),
                         Line("Status", "Matter pending for arguments")>>,
             anchors |-> <<Anchor("sample-order-1.pdf", "Interim Order"),
                           Anchor("sample-judgment.pdf", "Final Judgment")>>]],
        <<"sample_data">>)

NotCalled == [kind |-> "not_called", value |-> None, exc |-> "", steps |-> <<>>]

\* Variant: no except clause around the selenium call.
ScrapeOutcome_Propagates(selenium, requests) ==
    [kind |-> selenium.kind, value |-> selenium.value, exc |-> selenium.exc,
     selenium |-> selenium, requests |-> NotCalled]

\* Variant: the combined failure reports the last exception only.
ScrapeOutcome_LastCauseOnly(selenium, requests) ==
    IF selenium.kind = "return"
    THEN [kind |-> "return", value |-> selenium.value, exc |-> "",
          selenium |-> selenium, requests |-> NotCalled]
    ELSE IF requests.kind = "return"
    THEN [kind |-> "return", value |-> requests.value, exc |-> "",
          selenium |-> selenium, requests |-> requests]
    ELSE [kind |-> "return",
          value |-> [success |-> FALSE,
                     error |-> "Both scraping methods failed. Requests error: "
                                 \o ExcText(requests.exc),
                     html |-> EmptyHtml],
          exc |-> "", selenium |-> selenium, requests |-> requests]

\* The try/except of scrape_case_data on the outcomes of the two paths: what
\* it returns, with the outcome of each path it ran.
ScrapeOutcome(selenium, requests) ==
    IF selenium.kind = "return"
    THEN [kind |-> "return", value |-> selenium.value, exc |-> "",
          selenium |-> selenium, requests |-> NotCalled]
    ELSE IF requests.kind = "return"
    THEN [kind |-> "return", value |-> requests.value, exc |-> "",
          selenium |-> selenium, requests |-> requests]
    ELSE [kind |-> "return",
          value |-> [success |-> FALSE,
                     error |-> "Both scraping methods failed. Selenium error: "
                                 \o ExcText(selenium.exc) \o ", Requests error: "
                                 \o ExcText(requests.exc),
                     html |-> EmptyHtml],
          exc |-> "", selenium |-> selenium, requests |-> requests]

\* scrape_case_data
ScrapeCaseData(case_type, case_number, filing_year, env) ==
    ScrapeOutcome(ScrapeWithSelenium(case_type, case_number, filing_year, env),
                  ScrapeWithRequests(case_type, case_number, filing_year))

\* ------------------------------------------------ scraper.py: download_pdf
\* What the network does for one session.get: fault is the RequestException
\* raised by get or raise_for_status, if any; content_type is the header of
\* the response, "" when it has none.
NetOutcomes ==
    [fault : {"none", "ConnectionError", "Timeout", "HTTPError"},
     content_type : {"application/pdf", "Application/PDF", "text/html", ""}]

RequestExceptions == {"ConnectionError", "Timeout", "HTTPError"}

\* response.content and len(response.content).
Content(net) ==
    IF "pdf" \in KeywordsIn(Lower(net.content_type)) THEN "%PDF-1.4" ELSE "<html>404</html>"
ContentSize(content) == IF content = "%PDF-1.4" THEN 8 ELSE 16

UrlEndsWithPdf(pdf_url) == EndsWithPdf(Lower(pdf_url))

\* str(int(time.time())) for the clock values of the model.
ClockText(clock) ==
    CASE clock = 0 -> "0"
      [] clock = 3600 -> "3600"
      [] clock = 3601 -> "3601"
      [] OTHER -> "7200"

\* urlparse(url).path.split('/')[-1]: the query is not part of the path.
LastSegment(url) ==
    CASE url = "https://delhihighcourt.nic.in/app/docs/order1.pdf" -> "order1.pdf"
      [] url = "https://delhihighcourt.nic.in/app/docs/order1.pdf?dl=1" -> "order1.pdf"
      [] url = "https://delhihighcourt.nic.in/app/docs/ORDER1.PDF" -> "ORDER1.PDF"
      [] url = "https://delhihighcourt.nic.in/app/docs/.pdf" -> ".pdf"
      [] url = "https://delhihighcourt.nic.in/app/docs/" -> ""
      [] url = "https://delhihighcourt.nic.in/app/view?id=1" -> "view"
      [] OTHER -> ""

\* Variant: the last path segment is the filename, whatever it is.
ExtractFilenameFromUrl_NoDefault(url, clock) == LastSegment(url)

\* _extract_filename_from_url; clock is the value of time.time().
ExtractFilenameFromUrl(url, clock) ==
    IF LastSegment(url) = "" \/ ~EndsWithPdf(LastSegment(url))
    THEN "court_document_" \o ClockText(clock) \o ".pdf"
    ELSE LastSegment(url)

\* Variant: the response is returned whatever its content type.
DownloadTry_NoTypeCheck(pdf_url, net, clock) ==
    IF net.fault # "none" THEN Raise(net.fault, <<"session.get">>)
    ELSE Ret([success |-> TRUE, content |-> Content(net), size |-> ContentSize(Content(net)),
              filename |-> ExtractFilenameFromUrl(pdf_url, clock)],
             <<"session.get", "content_type">>)

\* The try block of download_pdf.
DownloadTry(pdf_url, net, clock) ==
    IF net.fault # "none" THEN Raise(net.fault, <<"session.get">>)
    ELSE IF "pdf" \notin KeywordsIn(Lower(net.content_type)) /\ ~UrlEndsWithPdf(pdf_url)
    THEN Ret([success |-> FALSE, error |-> "URL does not point to a PDF file"],
             <<"session.get", "content_type">>)
    ELSE Ret([success |-> TRUE, content |-> Content(net), size |-> ContentSize(Content(net)),
              filename |-> ExtractFilenameFromUrl(pdf_url, clock)],
             <<"session.get", "content_type">>)

\* Variant: no except clause around the request.
DownloadExcept_Propagates(body) == body

\* except requests.exceptions.RequestException
DownloadExcept(body) ==
    IF body.kind = "raise" /\ body.exc \in RequestExceptions
    THEN Ret([success |-> FALSE, error |-> "Download failed: " \o ExcText(body.exc)],
             body.steps \o <<"except:" \o body.exc>>)
    ELSE body

\* download_pdf of the scraper
DownloadPdfFile(pdf_url, net, clock) == DownloadExcept(DownloadTry(pdf_url, net, clock))


\* ------------------------------------------------------------------- state
VARIABLES
    store,          \* the case_query table: CaseQuery rows in insertion order
    downloads,      \* the pdf_download table
    now,            \* the clock, in seconds
    dbFuncNow,      \* what db.func.now() evaluates to in this deployment
    resp,           \* the response of the last request handled
    run,            \* the scrape_case_data call of the last request, NoRun if it made none
    pc,             \* "ready" / "done": a direct caller of scrape_case_data
    openSessions,   \* browser sessions started and not quit
    inflight        \* the search requests handled concurrently: position and locals of each

vars == <<store, downloads, now, dbFuncNow, resp, run, pc, openSessions, inflight>>

FreshnessWindow == 3600
MinYear == 1950
MaxYear == 2025

NoRun == [kind |-> "none"]

\* A search request of a threaded server: pc is its position in search_case,
\* browser the Chrome instance its driver talks to (0 when it has none),
\* result what scrape_case_data returned, row the id of the row it inserted.
Requests == 1..MaxRequests
Idle ==
    [pc |-> "idle", key |-> [none |-> TRUE], env |-> [none |-> TRUE], outcome |-> "",
     browser |-> 0, result |-> NoRun, row |-> 0]
NoResp == [handler |-> "none"]

\* ------------------------------------------------------------ routes.py
\* int(filing_year): the parsed value, or none for a ValueError.
ParseInt(text) ==
    CASE text = "2020" -> [none |-> FALSE, value |-> 2020]
      [] text = "1949" -> [none |-> FALSE, value |-> 1949]
      [] text = "2026" -> [none |-> FALSE, value |-> 2026]
      [] text = "1950" -> [none |-> FALSE, value |-> 1950]
      [] text = "2025" -> [none |-> FALSE, value |-> 2025]
      [] OTHER -> None

\* json.dumps / json.loads of a list of links.
JsonDumps(links) == [json |-> links]
JsonLoads(text) == text.json

Matching(rows, case_type, case_number, filing_year) ==
    {i \in 1..Len(rows) :
        /\ rows[i].case_type = case_type
        /\ rows[i].case_number = case_number
        /\ rows[i].filing_year = filing_year}

\* Variant: the lookup does not filter on success.
CachedQuery_AnyOutcome(rows, case_type, case_number, filing_year) ==
    LET hits == Matching(rows, case_type, case_number, filing_year)
    IN  IF hits = {} THEN None
        ELSE rows[CHOOSE i \in hits : \A j \in hits :
                    \/ rows[j].query_timestamp < rows[i].query_timestamp
                    \/ rows[j].query_timestamp = rows[i].query_timestamp /\ j <= i]

\* filter_by(identity, success=True).order_by(query_timestamp.desc()).first();
\* rows of equal timestamp are taken latest-inserted first.
CachedQuery(rows, case_type, case_number, filing_year) ==
    LET hits == {i \in Matching(rows, case_type, case_number, filing_year) : rows[i].success}
    IN  IF hits = {} THEN None
        ELSE rows[CHOOSE i \in hits : \A j \in hits :
                    \/ rows[j].query_timestamp < rows[i].query_timestamp
                    \/ rows[j].query_timestamp = rows[i].query_timestamp /\ j <= i]

\* The freshness test: query_timestamp.timestamp() > now.timestamp() - 3600.
IsFresh(cached_query, clock) == cached_query.query_timestamp > clock - FreshnessWindow

\* The CaseQuery row built from the scrape result (the two branches on
\* result['success']); columns never assigned stay None.
QueryFromResult(id, case_type, case_number, filing_year, clock, result) ==
    IF result.success
    THEN [id |-> id, case_type |-> case_type, case_number |-> case_number,
          filing_year |-> filing_year, query_timestamp |-> clock,
          success |-> TRUE, error_message |-> NoneText,
          parties_name |-> Get(result, "parties_name", ""),
          filing_date |-> Get(result, "filing_date", ""),
          next_hearing_date |-> Get(result, "next_hearing_date", ""),
          case_status |-> Get(result, "case_status", ""),
          raw_html_response |-> Get(result, "raw_html", EmptyHtml),
          pdf_links |-> JsonDumps(Get(result, "pdf_links", <<>>))]
    ELSE [id |-> id, case_type |-> case_type, case_number |-> case_number,
          filing_year |-> filing_year, query_timestamp |-> clock,
          success |-> FALSE,
          error_message |-> Get(result, "error", "Unknown error occurred"),
          parties_name |-> NoneText, filing_date |-> NoneText,
          next_hearing_date |-> NoneText, case_status |-> NoneText,
          raw_html_response |-> Get(result, "raw_html", EmptyHtml),
          pdf_links |-> None]

\* Variant: a row of the same identity is overwritten in place.
SessionAddCommit_Upsert(rows, query) ==
    LET same == Matching(rows, query.case_type, query.case_number, query.filing_year)
    IN  IF same = {} THEN Append(rows, query)
        ELSE [rows EXCEPT ![CHOOSE i \in same : TRUE] = query]

\* db.session.add(query); db.session.commit()
SessionAddCommit(rows, query) == Append(rows, query)


\* The request forms and the browser behaviours the handlers are run with.
Forms ==
    [case_type : {"", "W.P.(C)", " CRL.A. "},
     case_number : {"101"},
     filing_year : {"2020", "1949", "2026", "abc"}]

LiveEnv ==
    [setup |-> "ok", get |-> "ok", fields |-> FieldNames, fill |-> "ok",
     captcha |-> "none", buttons |-> "found", click |-> "ok", page |-> PageDetails,
     read |-> "ok", handler_read |-> "ok", parse |-> "ok"]
RouteEnvs ==
    {LiveEnv,
     [LiveEnv EXCEPT !.page = PageNoRecords],
     [LiveEnv EXCEPT !.get = "timeout"]}

TickSteps == {3600, 3601}

SearchResp(outcome, key, flash, case_data, pdf_links) ==
    [handler |-> "search_case", outcome |-> outcome, key |-> key, flash |-> flash,
     case_data |-> case_data, pdf_links |-> pdf_links]

Key(case_type, case_number, filing_year) ==
    [case_type |-> case_type, case_number |-> case_number, filing_year |-> filing_year]

Leaked(scrape) == IF scrape.selenium.driver = "open" THEN 1 ELSE 0

\* search_case, after validation: the cache lookup, the scrape and the
\* insert, inside the handler's try block.  cached_query is the row the
\* lookup found, scrape the outcome of scrape_case_data when it is called.
\* Variant: the scraper is run on a hit as well.
SearchLookup_ScrapesOnHit(key, cached_query, scrape, query) ==
    IF cached_query # None /\ dbFuncNow = "sql_expression"
    THEN /\ resp' = SearchResp("error", key,
                               <<"An unexpected error occurred: 'now' object has no attribute 'timestamp'">>,
                               None, <<>>)
         /\ run' = NoRun
         /\ UNCHANGED <<store, openSessions>>
    ELSE IF cached_query # None /\ IsFresh(cached_query, now)
    THEN /\ resp' = SearchResp("hit", key, <<>>, cached_query,
                               JsonLoads(IF cached_query.pdf_links = None
                                         THEN JsonDumps(<<>>) ELSE cached_query.pdf_links))
         /\ run' = scrape
         /\ openSessions' = openSessions + Leaked(scrape)
         /\ UNCHANGED store
    ELSE /\ Len(store) < MaxStore
         /\ run' = scrape
         /\ openSessions' = openSessions + Leaked(scrape)
         /\ IF scrape.kind = "raise"
            THEN /\ resp' = SearchResp("error", key,
                                       <<"An unexpected error occurred: " \o ExcText(scrape.exc)>>,
                                       None, <<>>)
                 /\ UNCHANGED store
            ELSE /\ store' = SessionAddCommit(store, query)
                 /\ resp' = IF query.success
                            THEN SearchResp("miss", key, <<"Case details retrieved successfully">>,
                                            query, Get(scrape.value, "pdf_links", <<>>))
                            ELSE SearchResp("miss", key, <<"Search failed: " \o query.error_message>>,
                                            None, <<>>)

SearchLookup(key, cached_query, scrape, query) ==
    IF cached_query # None /\ dbFuncNow = "sql_expression"
    THEN /\ resp' = SearchResp("error", key,
                               <<"An unexpected error occurred: 'now' object has no attribute 'timestamp'">>,
                               None, <<>>)
         /\ run' = NoRun
         /\ UNCHANGED <<store, openSessions>>
    ELSE IF cached_query # None /\ IsFresh(cached_query, now)
    THEN /\ resp' = SearchResp("hit", key, <<>>, cached_query,
                               JsonLoads(IF cached_query.pdf_links = None
                                         THEN JsonDumps(<<>>) ELSE cached_query.pdf_links))
         /\ run' = NoRun
         /\ UNCHANGED <<store, openSessions>>
    ELSE /\ Len(store) < MaxStore
         /\ run' = scrape
         /\ openSessions' = openSessions + Leaked(scrape)
         /\ IF scrape.kind = "raise"
            THEN /\ resp' = SearchResp("error", key,
                                       <<"An unexpected error occurred: " \o ExcText(scrape.exc)>>,
                                       None, <<>>)
                 /\ UNCHANGED store
            ELSE /\ store' = SessionAddCommit(store, query)
                 /\ resp' = IF query.success
                            THEN SearchResp("miss", key, <<"Case details retrieved successfully">>,
                                            query, Get(scrape.value, "pdf_links", <<>>))
                            ELSE SearchResp("miss", key, <<"Search failed: " \o query.error_message>>,
                                            None, <<>>)

\* The row search_case builds from the outcome of scrape_case_data.
NewQuery(case_type, case_number, filing_year, scrape) ==
    IF scrape.kind = "raise" THEN None
    ELSE QueryFromResult(Len(store) + 1, case_type, case_number, filing_year, now, scrape.value)

SearchScraped(case_type, case_number, filing_year, scrape) ==
    SearchLookup(Key(case_type, case_number, filing_year),
                 CachedQuery(store, case_type, case_number, filing_year),
                 scrape,
                 NewQuery(case_type, case_number, filing_year, scrape))

SearchValid(case_type, case_number, filing_year, env) ==
    SearchScraped(case_type, case_number, filing_year,
                  ScrapeCaseData(case_type, case_number, filing_year, env))

Rejected(text) ==
    /\ resp' = SearchResp("rejected", None, <<text>>, None, <<>>)
    /\ run' = NoRun
    /\ UNCHANGED <<store, openSessions>>

\* Variant: the filing year is not tested against the range.
SearchCase_NoRangeCheck(form, env) ==
    LET case_type == Strip(form.case_type)
        case_number == Strip(form.case_number)
        year_text == Strip(form.filing_year)
        filing_year == ParseInt(year_text)
    IN  /\ pc = "ready"
        /\ IF case_type = "" \/ case_number = "" \/ year_text = ""
           THEN Rejected("All fields are required")
           ELSE IF filing_year = None
           THEN Rejected("Filing year must be a valid number")
           ELSE SearchValid(case_type, case_number, filing_year.value, env)
        /\ UNCHANGED <<downloads, now, dbFuncNow, pc, inflight>>

\* POST /search
SearchCase(form, env) ==
    LET case_type == Strip(form.case_type)
        case_number == Strip(form.case_number)
        year_text == Strip(form.filing_year)
        filing_year == ParseInt(year_text)
    IN  /\ pc = "ready"
        /\ IF case_type = "" \/ case_number = "" \/ year_text = ""
           THEN Rejected("All fields are required")
           ELSE IF filing_year = None
           THEN Rejected("Filing year must be a valid number")
           ELSE IF filing_year.value < MinYear \/ filing_year.value > MaxYear
           THEN Rejected("Invalid filing year")
           ELSE SearchValid(case_type, case_number, filing_year.value, env)
        /\ UNCHANGED <<downloads, now, dbFuncNow, pc, inflight>>

DownloadUrls == {"", "https://delhihighcourt.nic.in/app/view?id=1"}
RouteNets ==
    {[fault |-> "none", content_type |-> "application/pdf"],
     [fault |-> "none", content_type |-> "text/html"],
     [fault |-> "Timeout", content_type |-> ""],
     [fault |-> "ConnectionError", content_type |-> ""],
     [fault |-> "HTTPError", content_type |-> "text/html"]}

DownloadResp(outcome, pdf_url, net, flash, filename) ==
    [handler |-> "download_pdf", outcome |-> outcome, pdf_url |-> pdf_url, net |-> net,
     flash |-> flash, filename |-> filename]

\* download_pdf of routes.py once the URL is there: out is the outcome of
\* the scraper's download_pdf.
DownloadRecorded(pdf_url, case_query_id, net, out) ==
    IF out.kind = "raise"
    THEN /\ resp' = DownloadResp("error", pdf_url, net,
                                 <<"PDF download failed: " \o ExcText(out.exc)>>, "")
         /\ UNCHANGED downloads
    ELSE /\ downloads' = Append(downloads,
                                [case_query_id |-> case_query_id, pdf_url |-> pdf_url,
                                 success |-> out.value.success,
                                 file_size |-> IF out.value.success
                                               THEN Get(out.value, "size", 0) ELSE None])
         /\ resp' = IF out.value.success
                    THEN DownloadResp("attachment", pdf_url, net, <<>>, out.value.filename)
                    ELSE DownloadResp("failed", pdf_url, net,
                                      <<"PDF download failed: "
                                          \o Get(out.value, "error", "Unknown error")>>, "")

\* GET /download_pdf
DownloadPdf(pdf_url, case_query_id, net) ==
    /\ pc = "ready"
    /\ IF pdf_url = ""
       THEN /\ resp' = DownloadResp("rejected", pdf_url, None, <<"PDF URL is required">>, "")
            /\ UNCHANGED downloads
       ELSE /\ Len(downloads) < MaxDownloads
            /\ DownloadRecorded(pdf_url, case_query_id, net,
                                DownloadPdfFile(pdf_url, net, now))
    /\ run' = NoRun
    /\ UNCHANGED <<store, now, dbFuncNow, pc, openSessions, inflight>>

\* order_by(CaseQuery.query_timestamp.desc()): the ids, latest first.
RECURSIVE OrderByTimestampDesc(_, _)
OrderByTimestampDesc(rows, left) ==
    IF left = {} THEN <<>>
    ELSE LET top == CHOOSE i \in left : \A j \in left :
                        \/ rows[j].query_timestamp < rows[i].query_timestamp
                        \/ rows[j].query_timestamp = rows[i].query_timestamp /\ j <= i
         IN  <<rows[top].id>> \o OrderByTimestampDesc(rows, left \ {top})

\* GET /history
QueryHistory ==
    /\ pc = "ready"
    /\ resp' = [handler |-> "query_history",
                items |-> OrderByTimestampDesc(store, DOMAIN store)]
    /\ run' = NoRun
    /\ UNCHANGED <<store, downloads, now, dbFuncNow, pc, openSessions, inflight>>

\* GET /api/case/<case_id>: a missing row aborts with 404 inside the try
\* block, which the except clause turns into abort(500).
ApiCaseDetails(case_id) ==
    /\ pc = "ready"
    /\ resp' = IF \E i \in DOMAIN store : store[i].id = case_id
               THEN [handler |-> "api_case_details", status |-> 200,
                     case |-> (CHOOSE r \in Range(store) : r.id = case_id).id,
                     success |-> (CHOOSE r \in Range(store) : r.id = case_id).success]
               ELSE [handler |-> "api_case_details", status |-> 500]
    /\ run' = NoRun
    /\ UNCHANGED <<store, downloads, now, dbFuncNow, pc, openSessions, inflight>>

\* Time passes between requests.
Tick(d) ==
    /\ now + d <= MaxTime
    /\ now' = now + d
    /\ UNCHANGED <<store, downloads, dbFuncNow, resp, run, pc, openSessions, inflight>>

\* A direct call of scrape_case_data and its return to the caller.
ScrapeCall(case_type, case_number, filing_year, env) ==
    LET scrape == ScrapeCaseData(case_type, case_number, filing_year, env)
    IN  /\ pc = "ready"
        /\ run' = scrape
        /\ openSessions' = openSessions + Leaked(scrape)
        /\ pc' = "done"
        /\ UNCHANGED <<store, downloads, now, dbFuncNow, resp, inflight>>

ScrapeReturn ==
    /\ pc = "done"
    /\ pc' = "ready"
    /\ run' = NoRun
    /\ UNCHANGED <<store, downloads, now, dbFuncNow, resp, openSessions, inflight>>

Init ==
    /\ store = <<>>
    /\ downloads = <<>>
    /\ now = 0
    /\ dbFuncNow \in {"sql_expression", "datetime"}
    /\ resp = NoResp
    /\ run = NoRun
    /\ pc = "ready"
    /\ openSessions = 0
    /\ inflight = [r \in Requests |-> Idle]

Next ==
    \/ \E form \in Forms, env \in RouteEnvs : SearchCase(form, env)
    \/ \E pdf_url \in DownloadUrls, net \in RouteNets : DownloadPdf(pdf_url, 1, net)
    \/ QueryHistory
    \/ \E case_id \in 1..(MaxStore + 1) : ApiCaseDetails(case_id)
    \/ \E d \in TickSteps : Tick(d)

Spec == Init /\ [][Next]_vars

CaseTypes == {"W.P.(C)", "CRL.A."}

NextScrape ==
    \/ \E case_type \in CaseTypes, env \in ScrapeEnvs : ScrapeCall(case_type, "101", 2020, env)
    \/ ScrapeReturn

SpecScrape == Init /\ [][NextScrape]_vars

\* The try/except of scrape_case_data for every outcome of its second call:
\* the except clause at the end of it catches any Exception of
\* _scrape_with_requests, so the outcomes given to it here include raises.
RequestsOutcomes(case_type, case_number, filing_year) ==
    {ScrapeWithRequests(case_type, case_number, filing_year),
     Raise("ConnectionError", <<"session.get">>),
     Raise("MemoryError", <<"sample_data">>)}

HandlerCall(case_type, case_number, filing_year, env, requests) ==
    LET scrape == ScrapeOutcome(ScrapeWithSelenium(case_type, case_number, filing_year, env),
                                requests)
    IN  /\ pc = "ready"
        /\ run' = scrape
        /\ openSessions' = openSessions + Leaked(scrape)
        /\ pc' = "done"
        /\ UNCHANGED <<store, downloads, now, dbFuncNow, resp, inflight>>

NextHandler ==
    \/ \E env \in ScrapeEnvs, requests \in RequestsOutcomes("W.P.(C)", "101", 2020) :
          HandlerCall("W.P.(C)", "101", 2020, env, requests)
    \/ ScrapeReturn

SpecHandler == Init /\ [][NextHandler]_vars

\* A direct call of the scraper's download_pdf.
DirectUrls ==
    {"https://delhihighcourt.nic.in/app/docs/order1.pdf",
     "https://delhihighcourt.nic.in/app/docs/ORDER1.PDF",
     "https://delhihighcourt.nic.in/app/docs/order1.pdf?dl=1",
     "https://delhihighcourt.nic.in/app/docs/.pdf",
     "https://delhihighcourt.nic.in/app/docs/",
     "https://delhihighcourt.nic.in/app/view?id=1"}

DownloadCall(pdf_url, net) ==
    /\ pc = "ready"
    /\ run' = [kind |-> "download", pdf_url |-> pdf_url, net |-> net, clock |-> now,
               out |-> DownloadPdfFile(pdf_url, net, now)]
    /\ pc' = "done"
    /\ UNCHANGED <<store, downloads, now, dbFuncNow, resp, openSessions, inflight>>

NextDownload ==
    \/ \E pdf_url \in DirectUrls, net \in NetOutcomes : DownloadCall(pdf_url, net)
    \/ ScrapeReturn
    \/ \E d \in TickSteps : Tick(d)

SpecDownload == Init /\ [][NextDownload]_vars

\* A direct call of _extract_pdf_links on a document with the given anchors.
AnchorHrefs ==
    {"docs/order1.pdf", "docs/ORDER1.PDF", "files/PDF/view?id=2", "getpdf?id=3", "view?id=1"}
AnchorTexts == {"Download Judgment", " Interim Order ", "Details", ""}
Anchors == {Anchor(h, x) : h \in AnchorHrefs, x \in AnchorTexts}
AnchorLists == UNION {[1..n -> Anchors] : n \in 0..MaxAnchors}

ExtractCall(anchors) ==
    /\ pc = "ready"
    /\ run' = [kind |-> "links", anchors |-> anchors,
               links |-> ExtractPdfLinks([heading |-> <<>>, lines |-> <<>>, anchors |-> anchors],
                                         case_status_url)]
    /\ pc' = "done"
    /\ UNCHANGED <<store, downloads, now, dbFuncNow, resp, openSessions, inflight>>

NextLinks ==
    \/ \E anchors \in AnchorLists : ExtractCall(anchors)
    \/ ScrapeReturn

SpecLinks == Init /\ [][NextLinks]_vars

\* Searches with forms that are incomplete, or whose filing year is not a
\* number or lies at or beyond an end of the accepted range.
EdgeForms ==
    [case_type : {"", " ", "W.P.(C)"},
     case_number : {"", "101"},
     filing_year : {"", "abc", "1949", "1950", "2025", "2026"}]

NextForms ==
    \/ \E form \in EdgeForms, env \in RouteEnvs : SearchCase(form, env)
    \/ \E d \in TickSteps : Tick(d)

SpecForms == Init /\ [][NextForms]_vars

\* Concurrent search requests.  Each request runs search_case in a thread of
\* its own, with its own DelhiHighCourtScraper and its own database session;
\* the requests meet in the case_query table and in the DevTools port that
\* setup_driver gives to every Chrome it starts.
ConcKeys == {Key("W.P.(C)", "101", 2020), Key("CRL.A.", "101", 2020)}
ConcEnvs == {LiveEnv, [LiveEnv EXCEPT !.page = PageNoRecords]}
PortTakenOutcomes == {"attached", "error"}

\* The browsers that hold the DevTools port --remote-debugging-port=9222.
PortHolders == {s \in Requests : inflight[s].pc = "drive" /\ inflight[s].browser = s}

\* The validated request reads the table and tests the freshness of the
\* row it found.
Lookup(r, key, env) ==
    LET cached_query == CachedQuery(store, key.case_type, key.case_number, key.filing_year)
        outcome == IF cached_query # None /\ dbFuncNow = "sql_expression" THEN "error"
                   ELSE IF cached_query # None /\ IsFresh(cached_query, now) THEN "hit"
                   ELSE "miss"
    IN  /\ inflight[r].pc = "idle"
        /\ inflight' = [inflight EXCEPT ![r] =
                            [@ EXCEPT !.pc = IF outcome = "miss" THEN "setup" ELSE "done",
                                      !.key = key, !.env = env, !.outcome = outcome]]
        /\ UNCHANGED <<store, downloads, now, dbFuncNow, resp, run, pc, openSessions>>

\* setup_driver.  While another Chrome holds port 9222 the new Chrome cannot
\* open its DevTools server on it: the driver either reaches the Chrome that
\* holds the port (taken = "attached") or gets no session (taken = "error"),
\* and then scrape_case_data falls back.
SetupDriver(r, taken) ==
    /\ inflight[r].pc = "setup"
    /\ IF PortHolders = {}
       THEN /\ inflight' = [inflight EXCEPT ![r] = [@ EXCEPT !.pc = "drive", !.browser = r]]
            /\ openSessions' = openSessions + 1
       ELSE IF taken = "attached"
       THEN /\ \E s \in PortHolders :
                  inflight' = [inflight EXCEPT ![r] = [@ EXCEPT !.pc = "drive", !.browser = s]]
            /\ openSessions' = openSessions + 1
       ELSE /\ inflight' = [inflight EXCEPT ![r] =
                               [@ EXCEPT !.pc = "commit",
                                         !.result = ScrapeCaseData(inflight[r].key.case_type,
                                                                   inflight[r].key.case_number,
                                                                   inflight[r].key.filing_year,
                                                                   [inflight[r].env EXCEPT !.setup = "error"])]]
            /\ UNCHANGED openSessions
    /\ UNCHANGED <<store, downloads, now, dbFuncNow, resp, run, pc>>

\* The rest of scrape_case_data: the page is driven and read, and the
\* finally clause quits the driver.  A driver whose browser has been quit
\* by its owner fails at the navigation.
Drive(r) ==
    /\ inflight[r].pc = "drive"
    /\ inflight' = [inflight EXCEPT ![r] =
                        [@ EXCEPT !.pc = "commit", !.browser = 0,
                                  !.result = ScrapeCaseData(inflight[r].key.case_type,
                                                            inflight[r].key.case_number,
                                                            inflight[r].key.filing_year,
                                                            IF inflight[r].browser \in PortHolders
                                                            THEN inflight[r].env
                                                            ELSE [inflight[r].env EXCEPT !.get = "error"])]]
    /\ openSessions' = openSessions - 1
    /\ UNCHANGED <<store, downloads, now, dbFuncNow, resp, run, pc>>

\* The row is built from the result and committed.
Commit(r) ==
    /\ inflight[r].pc = "commit"
    /\ IF inflight[r].result.kind = "raise"
       THEN /\ inflight' = [inflight EXCEPT ![r] = [@ EXCEPT !.pc = "done", !.outcome = "error"]]
            /\ UNCHANGED store
       ELSE /\ store' = SessionAddCommit(store,
                            QueryFromResult(Len(store) + 1, inflight[r].key.case_type,
                                            inflight[r].key.case_number,
                                            inflight[r].key.filing_year, now,
                                            inflight[r].result.value))
            /\ inflight' = [inflight EXCEPT ![r] = [@ EXCEPT !.pc = "done", !.row = Len(store) + 1]]
    /\ UNCHANGED <<downloads, now, dbFuncNow, resp, run, pc, openSessions>>

NextConc ==
    \/ \E r \in Requests, key \in ConcKeys, env \in ConcEnvs : Lookup(r, key, env)
    \/ \E r \in Requests, taken \in PortTakenOutcomes : SetupDriver(r, taken)
    \/ \E r \in Requests : Drive(r)
    \/ \E r \in Requests : Commit(r)
    \/ \E d \in TickSteps : Tick(d)

SpecConc == Init /\ [][NextConc]_vars

\* ------------------------------------------------------------- properties
Called == run # NoRun
FellBack == run.requests # NotCalled
HasStep(outcome, step) == \E i \in DOMAIN outcome.steps : outcome.steps[i] = step

\* The page a _scrape_with_selenium outcome read after the submission.
Classified(selenium) == selenium.kind = "return" /\ HasStep(selenium, "classify")
PageRead(selenium) ==
    IF "html" \in DOMAIN selenium.value THEN selenium.value.html ELSE selenium.value.raw_html
HasNegative(html) == \E kw \in NegativeKeywords : Contains(LowerHtml(html), kw)
HasPositive(html) == \E kw \in PositiveKeywords : Contains(LowerHtml(html), kw)

\* The dynamic path timed out: a TimeoutException left _scrape_with_selenium
\* (navigation), or one was caught inside the form search.
TimedOut(selenium) ==
    \/ selenium.kind = "raise" /\ selenium.exc = "TimeoutException"
    \/ selenium.kind = "return" /\ HasStep(selenium, "except:TimeoutException")

\* C1: whenever the dynamic path ends in a timeout, scrape_case_data has run
\* the static fallback and returns exactly the fallback's result.
C1_TimedOutFallsBack ==
    (Called /\ TimedOut(run.selenium)) =>
        (FellBack /\ run.kind = "return" /\ run.value = run.requests.value)

\* C2: whenever the page read after the submission contains a negative
\* keyword, scrape_case_data returns the "not found" failure of the dynamic
\* path and the static fallback has not been run.
C2_NotFoundIsFinal ==
    (Called /\ Classified(run.selenium) /\ HasNegative(PageRead(run.selenium))) =>
        /\ ~FellBack
        /\ run.kind = "return"
        /\ run.value = run.selenium.value
        /\ ~run.value.success
        /\ run.value.error = "Case not found in court records"

C2_Witness ==
    /\ Called /\ Classified(run.selenium)
    /\ HasNegative(PageRead(run.selenium)) /\ HasPositive(PageRead(run.selenium))
    /\ ~FellBack /\ ~run.value.success

Ambiguous(selenium) ==
    /\ Classified(selenium)
    /\ ~HasNegative(PageRead(selenium)) /\ ~HasPositive(PageRead(selenium))
ParseError(selenium) ==
    selenium.kind = "return" /\ HasStep(selenium, "parse") /\ ~selenium.value.success

\* C3: whenever the dynamic path ends with an ambiguous page or with a fault
\* of the extraction step, the static fallback has been run.
C3_AmbiguousOrParseErrorFallsBack ==
    (Called /\ (Ambiguous(run.selenium) \/ ParseError(run.selenium))) => FellBack

\* A step that handled a search request for the identity resp'.key.
SearchStep ==
    /\ resp'.handler = "search_case"
    /\ resp'.outcome # "rejected"
    /\ (resp' # resp \/ store' # store \/ run' # run)

RowsOf(rows, key) ==
    {i \in DOMAIN rows : Key(rows[i].case_type, rows[i].case_number, rows[i].filing_year) = key}
Successes(rows, key) == {i \in RowsOf(rows, key) : rows[i].success}
Latest(rows, among) ==
    rows[CHOOSE i \in among : \A j \in among : rows[j].query_timestamp <= rows[i].query_timestamp]

\* C4: a search for an identity that has a successful row no older than the
\* freshness window is answered from that row: the response carries the
\* latest such row, no error message, and nothing is stored.
C4_FreshSuccessIsHit ==
    [][(SearchStep /\ \E i \in Successes(store, resp'.key) :
                          now - store[i].query_timestamp < FreshnessWindow) =>
          /\ resp'.outcome = "hit"
          /\ resp'.case_data = Latest(store, Successes(store, resp'.key))
          /\ resp'.flash = <<>>
          /\ store' = store]_vars

\* C5: a search for an identity all of whose rows are failures is a miss,
\* however recent they are: the scraper is run and one new row is stored.
C5_FailuresNeverServed ==
    [][(SearchStep /\ RowsOf(store, resp'.key) # {} /\ Successes(store, resp'.key) = {}) =>
          /\ resp'.outcome = "miss"
          /\ run' # NoRun
          /\ Len(store') = Len(store) + 1]_vars

C5_Witness ==
    /\ Len(store) = 2
    /\ resp.handler = "search_case" /\ resp.outcome = "miss" /\ run # NoRun
    /\ RowsOf(store, resp.key) = {1, 2}
    /\ ~store[1].success
    /\ store[2].query_timestamp = store[1].query_timestamp

\* C6: a search made more than the freshness window after the latest
\* successful row of its identity is a miss and the scraper is run.
C6_StaleSuccessIsMiss ==
    [][(/\ SearchStep
        /\ Successes(store, resp'.key) # {}
        /\ \A i \in Successes(store, resp'.key) :
              now - store[i].query_timestamp > FreshnessWindow) =>
          /\ resp'.outcome = "miss"
          /\ run' # NoRun]_vars

\* C7: the case_query table only grows, by at most one row per step, and no
\* row already in it is changed or removed.
C7_AppendOnly ==
    [][/\ Len(store') \in {Len(store), Len(store) + 1}
       /\ \A i \in DOMAIN store : store'[i] = store[i]]_vars

C7_Witness ==
    /\ Len(store) = 2
    /\ resp.handler = "search_case" /\ resp.outcome = "miss"
    /\ RowsOf(store, resp.key) = {1, 2}
    /\ store[1].id # store[2].id
    /\ ~store[1].success /\ store[2].success
    /\ store[2].query_timestamp > store[1].query_timestamp

\* What a caller sees of a result, or of a stored row, besides the case
\* contents themselves.
ContentKeys ==
    {"parties_name", "filing_date", "next_hearing_date", "case_status", "pdf_links",
     "raw_html", "raw_html_response"}
Marks(d) == [k \in DOMAIN d \ ContentKeys |-> d[k]]
LiveResult == ParseCaseDetails(LiveEnv, PageDetails)

\* C8: a successful result that came from the static fallback differs from a
\* live result in something other than the case contents, and so does the
\* row stored for it.
C8_FallbackIsMarked ==
    (Called /\ FellBack /\ run.value.success /\ resp.outcome = "miss") =>
        /\ Marks(run.value) # Marks(LiveResult)
        /\ Marks(store[Len(store)])
             # Marks(QueryFromResult(Len(store), resp.key.case_type, resp.key.case_number,
                                     resp.key.filing_year, store[Len(store)].query_timestamp,
                                     LiveResult))

\* C9: no browser session is left open: when _scrape_with_selenium has
\* exited, by return or by exception, a driver it started has been quit.
C9_SessionsClosed ==
    /\ openSessions = 0
    /\ Called =>
         /\ run.selenium.driver \in {"none", "quit"}
         /\ HasStep(run.selenium, "get") => run.selenium.driver = "quit"

C9_Witness ==
    /\ Called /\ FellBack
    /\ run.selenium.kind = "raise" /\ HasStep(run.selenium, "find_submit")
    /\ run.selenium.driver = "quit"
    /\ pc = "done"

\* C10: scrape_case_data always returns: the result has a boolean success
\* and, when success is false, a non-empty error text.
C10_AlwaysAResult ==
    Called =>
        /\ run.kind = "return"
        /\ run.value.success \in BOOLEAN
        /\ ~run.value.success => ("error" \in DOMAIN run.value /\ run.value.error # "")

C10_Witness ==
    /\ Called /\ pc = "done"
    /\ run.selenium.kind = "raise" /\ run.selenium.exc = "WebDriverException"
    /\ run.kind = "return"


\* C11: whenever the static fallback is run it returns a result with
\* success true, and a retrieval whose dynamic path ended by exception has
\* run it and returns that successful result.
C11_FallbackAlwaysSucceeds ==
    /\ (Called /\ FellBack) =>
          (run.requests.kind = "return" /\ run.requests.value.success = TRUE)
    /\ (Called /\ run.selenium.kind = "raise") =>
          (FellBack /\ run.kind = "return" /\ run.value.success = TRUE)

C11_Witness ==
    /\ Called /\ run.selenium.kind = "raise" /\ run.selenium.exc = "TimeoutException"
    /\ run.requests.kind = "return"
    /\ run.value.success
    /\ run.value.filing_date = "15-01-2020"

\* The connectives of an error text that names several causes.
Glue ==
    {"", "Both scraping methods failed. Selenium error: ", ", Requests error: "}
Names(text, first, second) ==
    \E pre \in Glue, mid \in Glue, post \in Glue : text = pre \o first \o mid \o second \o post
BothFailed == Called /\ run.selenium.kind = "raise" /\ run.requests.kind = "raise"

\* C12: when the dynamic path ends by exception and the static fallback
\* raises too, scrape_case_data returns a failure whose error text holds the
\* text of both exceptions.
C12_BothCausesNamed ==
    BothFailed =>
        /\ run.kind = "return"
        /\ run.value.success = FALSE
        /\ Names(run.value.error, ExcText(run.selenium.exc), ExcText(run.requests.exc))

C12_Witness ==
    /\ BothFailed
    /\ run.selenium.exc = "TimeoutException" /\ run.requests.exc = "ConnectionError"
    /\ ~run.value.success


\* C13: the row stored for a failed attempt of the dynamic path holds the
\* error message of the failure and the markup the driver read.
C13_FailureKeepsMarkup ==
    (Called /\ resp.outcome = "miss" /\ run.selenium.kind = "return" /\ ~run.value.success) =>
        /\ store[Len(store)].success = FALSE
        /\ store[Len(store)].error_message = run.value.error
        /\ store[Len(store)].raw_html_response = PageRead(run.selenium)

\* The result of the form search on a page, with and without a challenge
\* widget on the form.
DriverResult(page, captcha) ==
    SearchCaseWithSelenium([LiveEnv EXCEPT !.page = page, !.captcha = captcha]).value

\* C14: the classification depends on challenge detection: for some page the
\* form search with a challenge detected returns another result than the
\* form search with none detected.
C14_ChallengeWeighed ==
    (Called /\ HasStep(run.selenium, "challenge_detected")) =>
        \E page \in Pages, captcha \in {"present", "error"} :
            DriverResult(page, captcha) # DriverResult(page, "none")

\* C15: a page read after the submission is classified NotFound when it
\* holds a negative keyword in any letter case, whatever else it holds;
\* otherwise Found, and handed to extraction, when it holds a positive
\* keyword; otherwise Ambiguous, a failure.
C15_Classification ==
    (Called /\ Classified(run.selenium)) =>
        IF HasNegative(PageRead(run.selenium))
        THEN /\ ~HasStep(run.selenium, "parse")
             /\ run.selenium.value.success = FALSE
             /\ run.selenium.value.error = "Case not found in court records"
        ELSE IF HasPositive(PageRead(run.selenium))
        THEN HasStep(run.selenium, "parse")
        ELSE /\ ~HasStep(run.selenium, "parse")
             /\ run.selenium.value.success = FALSE
             /\ run.selenium.value.error = "Search form submitted but no case details found"

C15_Witness ==
    /\ Called /\ Ambiguous(run.selenium)
    /\ PageRead(run.selenium) = PageBlank
    /\ ~run.value.success /\ ~FellBack

\* The labels a page gives a value to.
Labels(html) == {Lower(html.lines[i].label) : i \in DOMAIN html.lines}
Extracted(selenium) ==
    selenium.kind = "return" /\ HasStep(selenium, "parse") /\ selenium.value.success

\* C16: in a successful result of the dynamic path each extracted field is a
\* non-empty string, and it is the field's sentinel when the page has none
\* of the field's labels.
C16_SentinelsNeverEmpty ==
    (Called /\ Extracted(run.selenium)) =>
        /\ \A f \in {"parties_name", "filing_date", "next_hearing_date", "case_status"} :
              run.value[f] \notin {"", NoneText}
        /\ Labels(run.value.raw_html) \cap Range(PartyPatterns) = {}
              => run.value.parties_name = "Parties information not found"
        /\ Labels(run.value.raw_html) \cap {"filed on", "filing date", "date of filing"} = {}
              => run.value.filing_date = "Filing date not found"
        /\ Labels(run.value.raw_html) \cap {"next hearing", "next date", "hearing date"} = {}
              => run.value.next_hearing_date = "Next hearing date not found"
        /\ Labels(run.value.raw_html) \cap {"status", "stage", "current status"} = {}
              => run.value.case_status = "Case status not found"


\* Content types that hold "pdf" in no letter case, and URLs that end in
\* ".pdf" in no letter case.
NonPdfTypes == {"text/html", ""}
NonPdfUrls == {"https://delhihighcourt.nic.in/app/view?id=1"}

\* C17: a call of download_pdf whose response declares a content type
\* without "pdf", for a URL that does not end in ".pdf", returns a failure
\* that carries an error and no content.
C17_NonPdfRejected ==
    (run.kind = "download" /\ run.net.content_type \in NonPdfTypes
                           /\ run.pdf_url \in NonPdfUrls) =>
        /\ run.out.kind = "return"
        /\ run.out.value.success = FALSE
        /\ "content" \notin DOMAIN run.out.value
        /\ "error" \in DOMAIN run.out.value

C17_Witness ==
    /\ run.kind = "download" /\ pc = "done"
    /\ run.net = [fault |-> "none", content_type |-> "text/html"]
    /\ run.pdf_url = "https://delhihighcourt.nic.in/app/view?id=1"
    /\ run.out.value.error = "URL does not point to a PDF file"

\* A step that handled a download request for a URL.
DownloadStep ==
    /\ resp'.handler = "download_pdf"
    /\ resp'.outcome # "rejected"
    /\ <<resp, downloads>>' # <<resp, downloads>>

\* C18: a download whose request fails in transport (connection failure,
\* timeout, HTTP error status) ends as a reported failure: a message is
\* shown, one failed download row is stored, and the case rows are left as
\* they are, whatever they hold.
C18_TransportFailureReported ==
    [][(DownloadStep /\ resp'.net.fault # "none") =>
          /\ resp'.outcome = "failed"
          /\ resp'.flash # <<>>
          /\ Len(downloads') = Len(downloads) + 1
          /\ downloads'[Len(downloads')].success = FALSE
          /\ store' = store]_vars

C18_Witness ==
    /\ resp.handler = "download_pdf" /\ resp.outcome = "failed"
    /\ resp.net.fault = "ConnectionError"
    /\ Len(store) = 1 /\ ~store[1].success
    /\ Len(downloads) = 1 /\ downloads[1].case_query_id = store[1].id

\* The identity has a successful row within the freshness window.
FreshSuccess(rows, key, clock) ==
    \E i \in Successes(rows, key) : clock - rows[i].query_timestamp < FreshnessWindow

\* C19: a search that passes validation and finds no fresh successful row
\* of its identity runs the retrieval and appends exactly one row, which
\* carries the identity of the request and the success flag of the result.
C19_OneRecordPerMiss ==
    [][(SearchStep /\ ~FreshSuccess(store, resp'.key, now)) =>
          /\ run' # NoRun
          /\ Len(store') = Len(store) + 1
          /\ Key(store'[Len(store')].case_type, store'[Len(store')].case_number,
                 store'[Len(store')].filing_year) = resp'.key
          /\ store'[Len(store')].success = run'.value.success]_vars

\* The site did not respond: the navigation, or the click that submits the
\* form, ended in a TimeoutException.
Unresponsive(selenium) ==
    \/ /\ selenium.kind = "raise" /\ selenium.exc = "TimeoutException"
       /\ selenium.steps[Len(selenium.steps)] = "get"
    \/ /\ HasStep(selenium, "click") /\ ~HasStep(selenium, "settle")
       /\ HasStep(selenium, "except:TimeoutException")

\* C20: a retrieval from a site that does not respond during navigation or
\* submission has returned to its caller with the result of the static
\* fallback.
C20_UnresponsiveSiteFallsBack ==
    (Called /\ Unresponsive(run.selenium)) =>
        /\ pc = "done"
        /\ run.kind = "return"
        /\ FellBack
        /\ run.value = run.requests.value


\* What the source text of an anchor says, read off the strings themselves.
HrefEndsDotPdfAnyCase == {"docs/order1.pdf", "docs/ORDER1.PDF"}
HrefHoldsPdf == {"docs/order1.pdf", "getpdf?id=3"}
HrefHoldsPdfAnyCase == HrefHoldsPdf \cup {"docs/ORDER1.PDF", "files/PDF/view?id=2"}
TextHoldsKeyword == {"Download Judgment", " Interim Order "}
Trimmed(x) == IF x = " Interim Order " THEN "Interim Order" ELSE x
Label(a) == IF Trimmed(a.text) = "" THEN "Download PDF" ELSE Trimmed(a.text)
Absolute(href) == "https://delhihighcourt.nic.in/app/" \o href
Listed(a) ==
    \E j \in DOMAIN run.links :
        run.links[j].url = Absolute(a.href) /\ run.links[j].text = Label(a)

\* C21 as stated: an anchor is listed exactly when its href ends in ".pdf"
\* in any letter case, or holds "pdf" as written, or its text holds a
\* keyword in any letter case; its label is the trimmed text or "Download PDF".
C21_LinkQualifies ==
    run.kind = "links" =>
        \A i \in DOMAIN run.anchors :
            Listed(run.anchors[i]) <=>
                \/ run.anchors[i].href \in HrefEndsDotPdfAnyCase
                \/ run.anchors[i].href \in HrefHoldsPdf
                \/ run.anchors[i].text \in TextHoldsKeyword

\* C21 amended: an anchor is listed exactly when its href holds "pdf" in any
\* letter case (which covers an href ending in ".pdf"), or its text holds a
\* keyword in any letter case; its label is the trimmed text or "Download PDF".
C21_LinkQualifiesAnyCase ==
    run.kind = "links" =>
        \A i \in DOMAIN run.anchors :
            Listed(run.anchors[i]) <=>
                \/ run.anchors[i].href \in HrefEndsDotPdfAnyCase
                \/ run.anchors[i].href \in HrefHoldsPdfAnyCase
                \/ run.anchors[i].text \in TextHoldsKeyword

C21_Witness ==
    /\ run.kind = "links" /\ pc = "done"
    /\ run.anchors = <<Anchor("view?id=1", "Download Judgment"), Anchor("getpdf?id=3", "")>>
    /\ run.links = <<[url |-> "https://delhihighcourt.nic.in/app/view?id=1",
                      text |-> "Download Judgment"],
                     [url |-> "https://delhihighcourt.nic.in/app/getpdf?id=3",
                      text |-> "Download PDF"]>>

Qualifying(a) == a.href \in HrefHoldsPdfAnyCase \/ a.text \in TextHoldsKeyword

\* C22: the list holds one entry for each qualifying anchor, in the order of
\* the anchors in the document, equal URLs included.
C22_OrderAndDuplicatesKept ==
    run.kind = "links" =>
        LET qualifying == SelectSeq(run.anchors, Qualifying)
        IN  /\ Len(run.links) = Len(qualifying)
            /\ \A j \in DOMAIN run.links :
                  /\ run.links[j].url = Absolute(qualifying[j].href)
                  /\ run.links[j].text = Label(qualifying[j])

C22_Witness ==
    /\ run.kind = "links" /\ pc = "done"
    /\ Len(run.anchors) = 2 /\ Len(run.links) = 2
    /\ run.anchors[1].href = run.anchors[2].href
    /\ run.links[1].url = run.links[2].url
    /\ run.links[1].text = "Details" /\ run.links[2].text = "Interim Order"

C24_LatestSuccessDecides ==
    [][(/\ SearchStep
        /\ Cardinality(RowsOf(store, resp'.key)) >= 2
        /\ Successes(store, resp'.key) # {}) =>
          IF \A i \in Successes(store, resp'.key) :
                \E j \in Successes(store, resp'.key) :
                    /\ store[j].query_timestamp >= store[i].query_timestamp
                    /\ now - store[j].query_timestamp < FreshnessWindow
          THEN /\ resp'.outcome = "hit"
               /\ resp'.case_data \in {store[j] : j \in Successes(store, resp'.key)}
               /\ \A i \in Successes(store, resp'.key) :
                     store[i].query_timestamp <= resp'.case_data.query_timestamp
          ELSE resp'.outcome = "miss"]_vars

\* The requests that have a browser session, and those that have looked
\* the table up in this step.
WithBrowser == {r \in Requests : inflight[r].browser # 0}
LookedUp == {r \in Requests : inflight[r].pc = "idle" /\ inflight'[r].pc # "idle"}

\* C25: in every interleaving of concurrent searches, rows already in the
\* table stay as they are; a request that finds no fresh successful row of
\* its identity goes on to the retrieval, and once it has finished it has
\* inserted one row, its own, with its identity and the success flag of its
\* result; no two requests talk to the same browser.
C25_ConcurrentSearchesIndependent ==
    [][/\ \A i \in DOMAIN store : i \in DOMAIN store' /\ store'[i] = store[i]
       /\ \A r \in LookedUp :
             ~FreshSuccess(store, inflight'[r].key, now) => inflight'[r].outcome = "miss"
       /\ \A r \in Requests :
             (inflight'[r].pc = "done" /\ inflight'[r].outcome = "miss") =>
                 /\ inflight'[r].row \in DOMAIN store'
                 /\ inflight'[r].row \in RowsOf(store', inflight'[r].key)
                 /\ store'[inflight'[r].row].success = inflight'[r].result.value.success
                 /\ \A s \in Requests \ {r} : inflight'[s].row # inflight'[r].row
       /\ Len(store') = Cardinality({r \in Requests : inflight'[r].row # 0})
       /\ \A r \in WithBrowser' : \A s \in WithBrowser' \ {r} :
             inflight'[r].browser # inflight'[s].browser]_vars

\* The forms search_case accepts, by what the user typed.
SearchResponse == resp.handler = "search_case"
RejectionTexts ==
    {"All fields are required", "Filing year must be a valid number", "Invalid filing year"}

\* C26: a search whose form lacks the case type, the case number or the
\* filing year, or whose filing year is not an integer or lies outside
\* 1950..2025, is rejected, and a rejected search opens no browser session,
\* runs no retrieval and stores nothing; only complete forms with a year of
\* the range get further.
C26_InvalidFormsRejected ==
    [][/\ (SearchResponse' /\ resp'.outcome = "rejected") =>
             /\ run' = NoRun
             /\ store' = store
             /\ openSessions' = openSessions
             /\ resp'.case_data = None
             /\ \E text \in RejectionTexts : resp'.flash = <<text>>
       /\ (SearchResponse' /\ resp'.outcome # "rejected") =>
             /\ resp'.key.case_type = "W.P.(C)"
             /\ resp'.key.case_number = "101"
             /\ resp'.key.filing_year \in {1950, 2025}]_vars

C26_Witness ==
    /\ SearchResponse /\ resp.outcome = "rejected"
    /\ resp.flash = <<"Invalid filing year">>
    /\ Len(store) = 1 /\ store[1].filing_year = 2025
    /\ run = NoRun

\* The form search looked for the fields, found no element for at least one
\* of them, and no fault of the browser ended the filling.
StepAfter(selenium, step) ==
    selenium.steps[(CHOOSE i \in DOMAIN selenium.steps : selenium.steps[i] = step) + 1]
FieldSkipped(selenium) ==
    /\ HasStep(selenium, "locate_fields")
    /\ \E f \in {"case_type", "case_no", "case_year"} : ~HasStep(selenium, "fill:" \o f)
    /\ StepAfter(selenium, "locate_fields")
          \notin {"except:TimeoutException", "except:NoSuchElementException"}

\* C27: when no element is found for a field, the form search fills the
\* fields it did find, goes on to the challenge detection and to the
\* lookup of the submit control, and any failure it returns names another
\* cause than the missing field.
C27_MissingFieldSkipped ==
    (Called /\ FieldSkipped(run.selenium)) =>
        /\ HasStep(run.selenium, "no_challenge") \/ HasStep(run.selenium, "challenge_detected")
        /\ HasStep(run.selenium, "find_submit")
        /\ ~HasStep(run.selenium, "except:NoSuchElementException")
        /\ HasStep(run.selenium, "click") =>
              \/ HasStep(run.selenium, "classify")
              \/ HasStep(run.selenium, "except:TimeoutException")
              \/ HasStep(run.selenium, "except:WebDriverException")

C27_Witness ==
    /\ Called /\ FieldSkipped(run.selenium)
    /\ \A f \in {"case_type", "case_no", "case_year"} : ~HasStep(run.selenium, "fill:" \o f)
    /\ HasStep(run.selenium, "click") /\ HasStep(run.selenium, "parse")
    /\ ~FellBack /\ run.value.success

\* The form search looked for a submit control and clicked nothing, and no
\* fault of the browser was met.
NoSubmitControl(selenium) ==
    /\ selenium.kind = "return"
    /\ HasStep(selenium, "find_submit")
    /\ ~HasStep(selenium, "click")
    /\ ~HasStep(selenium, "except:WebDriverException")
    /\ ~HasStep(selenium, "except:TimeoutException")

\* C28: when the form search finds no submit control it clicks nothing,
\* classifies nothing and returns the failure "Could not find search button
\* on the page" with the markup of the page, and scrape_case_data returns
\* that failure without running the static fallback.
C28_NoSubmitControlIsFinal ==
    (Called /\ NoSubmitControl(run.selenium)) =>
        /\ ~HasStep(run.selenium, "classify")
        /\ ~FellBack
        /\ run.kind = "return"
        /\ run.value = run.selenium.value
        /\ run.value.success = FALSE
        /\ run.value.error = "Could not find search button on the page"
        /\ run.value.html \in Pages

\* The URLs whose last path segment ends in ".pdf" as written, with that
\* segment, and the names that end in ".pdf".
NamedUrls ==
    {<<"https://delhihighcourt.nic.in/app/docs/order1.pdf", "order1.pdf">>,
     <<"https://delhihighcourt.nic.in/app/docs/order1.pdf?dl=1", "order1.pdf">>,
     <<"https://delhihighcourt.nic.in/app/docs/.pdf", ".pdf">>}
GeneratedNames == {"court_document_0.pdf", "court_document_3600.pdf", "court_document_3601.pdf"}
Downloaded == run.kind = "download" /\ run.out.kind = "return" /\ run.out.value.success

\* C29: the filename of a download is never empty and ends in ".pdf": it is
\* the last path segment of the URL when that segment ends in ".pdf", and
\* "court_document_<seconds of the clock>.pdf" otherwise.
C29_FilenameIsPdfName ==
    Downloaded =>
        /\ run.out.value.filename # ""
        /\ run.out.value.filename \in {"order1.pdf", ".pdf"} \cup GeneratedNames
        /\ IF \E named \in NamedUrls : named[1] = run.pdf_url
           THEN <<run.pdf_url, run.out.value.filename>> \in NamedUrls
           ELSE /\ run.out.value.filename \in GeneratedNames
                /\ run.clock = 3600 => run.out.value.filename = "court_document_3600.pdf"

C29_Witness ==
    /\ Downloaded
    /\ run.pdf_url = "https://delhihighcourt.nic.in/app/docs/"
    /\ run.clock = 3601
    /\ run.out.value.filename = "court_document_3601.pdf"

====
